---- MODULE Spec2Model ----
(***************************************************************************)
(* A model of loc-counter (src/src/loc-counter.ts).                        *)
(*                                                                         *)
(* Strings are sequences of one-character strings and indices are the      *)
(* 0-based indices of JavaScript, -1 meaning "not found".                  *)
(*                                                                         *)
(* The specifications of the module:                                       *)
(*   SpecClassify  one iteration of the loop of analyzeTextLines on one    *)
(*                 line, from every state the loop can be in;              *)
(*   SpecLines     the whole loop of analyzeTextLines over one file;       *)
(*   SpecSplit     analyzeFile on a text: the split, then the loop;        *)
(*   SpecArgs      parseArgs, one argument at a time;                      *)
(*   Spec          run: stat, walkDir, analyzeFile per file, summaries;    *)
(*   SpecFair      Spec under weak fairness of its steps;                  *)
(*   SpecTwice     run, and run again on the same file system.             *)
(***************************************************************************)
EXTENDS Integers, Sequences, FiniteSets, TLC

VARIABLES
    \* ---- analyzeFile, analyzeTextLines (SpecLines, SpecClassify, SpecSplit) ----
    fileText,     \* the content analyzeFile has read
    lines,        \* the lines of the file under analysis
    ext,          \* its extension (lowercase, no dot)
    detectComments,
    idx,          \* number of lines the loop has processed
    total,        \* lines.length
    st,           \* [nonEmpty, commentOnly, withinBlock, blockType]
    hist,         \* history: hist[k+1] is st after k lines (hist[1]: before the loop)
    \* ---- run (Spec) ----
    pc,           \* position in run
    root,         \* targetPath, as a sequence of path segments
    rootKind,     \* what fs.stat finds at targetPath
    options,      \* [extensions, excludeDirs, detectComments, top]
    unlistable,   \* directories whose readdir throws
    content,      \* file path -> text, or Unreadable
    stack,        \* walkDir activations: <<[dir, i]>>, innermost last
    fileList,     \* files gathered by walkDir
    next,         \* index into fileList of the analyze loop
    fileStats,    \* FileStat records pushed so far
    perExt,       \* the perExt map, as a function on its key set
    report,       \* the emitted report, or NoReport
    listed,       \* directories readdir was called on, in call order
    reads,        \* files readFile was called on, in call order
    previous,     \* <<the report of the run before this one>>, or <<>>
    \* ---- parseArgs (SpecArgs) ----
    args,         \* process.argv.slice(2)
    argi          \* the loop index i of parseArgs

lineVars == <<fileText, lines, ext, detectComments, idx, total, st, hist>>
runVars  == <<pc, root, rootKind, options, unlistable, content, stack,
              fileList, next, fileStats, perExt, report, listed, reads, previous>>
argVars  == <<args, argi>>
vars     == <<lineVars, runVars, argVars>>

(***************************************************************************)
(* Bounds of the model.                                                    *)
(***************************************************************************)
MaxPieces == 3   \* a line of SpecClassify is built from at most this many pieces
MaxLines  == 3   \* a file of SpecLines has at most this many lines
MaxTop    == 3   \* --top ranges over -1 .. MaxTop

(***************************************************************************)
(* JavaScript string primitives.                                           *)
(***************************************************************************)
TabWidth == 4

Max(a, b) == IF a >= b THEN a ELSE b
Min(a, b) == IF a <= b THEN a ELSE b

Spaces(n) == [i \in 1..n |-> " "]

\* String.prototype.trim strips these (the only white space a line can hold
\* here: line terminators are removed by the split).
IsSpace(c) == c \in {" ", "\t"}

RECURSIVE ReplaceTabs(_)
ReplaceTabs(s) ==
    IF s = <<>> THEN <<>>
    ELSE (IF Head(s) = "\t" THEN Spaces(TabWidth) ELSE <<Head(s)>>)
         \o ReplaceTabs(Tail(s))

RECURSIVE TrimStart(_)
TrimStart(s) ==
    IF s # <<>> /\ IsSpace(Head(s)) THEN TrimStart(Tail(s)) ELSE s

RECURSIVE TrimEnd(_)
TrimEnd(s) ==
    IF s # <<>> /\ IsSpace(s[Len(s)]) THEN TrimEnd(SubSeq(s, 1, Len(s) - 1)) ELSE s

Trim(s) == TrimEnd(TrimStart(s))

\* s.slice(k)
Slice(s, k) == SubSeq(s, Min(k, Len(s)) + 1, Len(s))

\* tok occurs in s at 0-based position k
MatchAt(s, tok, k) ==
    /\ k >= 0
    /\ k + Len(tok) <= Len(s)
    /\ SubSeq(s, k + 1, k + Len(tok)) = tok

\* s.indexOf(tok, from)
IndexOfFrom(s, tok, from) ==
    LET hits == {k \in from..(Len(s) - Len(tok)) : MatchAt(s, tok, k)}
    IN  IF hits = {} THEN -1 ELSE CHOOSE k \in hits : \A j \in hits : k <= j

IndexOf(s, tok) == IndexOfFrom(s, tok, 0)

StartsWith(s, tok) == MatchAt(s, tok, 0)

(***************************************************************************)
(* Comment tokens and extension families.                                  *)
(***************************************************************************)
LineComment == <<"/", "/">>
COpen       == <<"/", "*">>
CClose      == <<"*", "/">>
HtmlOpen    == <<"<", "!", "-", "-">>
HtmlClose   == <<"-", "-", ">">>

ExtTs   == <<"t", "s">>
ExtTsx  == <<"t", "s", "x">>
ExtJs   == <<"j", "s">>
ExtJsx  == <<"j", "s", "x">>
ExtCss  == <<"c", "s", "s">>
ExtScss == <<"s", "c", "s", "s">>
ExtSass == <<"s", "a", "s", "s">>
ExtLess == <<"l", "e", "s", "s">>
ExtHtml == <<"h", "t", "m", "l">>
ExtVue  == <<"v", "u", "e">>
ExtMd   == <<"m", "d">>
ExtUnknown == <<"u", "n", "k", "n", "o", "w", "n">>

isCStyle(e) ==
    e \in {ExtTs, ExtTsx, ExtJs, ExtJsx, ExtCss, ExtScss, ExtSass, ExtLess}

isHtmlLike(e) == e = ExtHtml \/ e = ExtVue

(***************************************************************************)
(* analyzeTextLines: the body of the loop over the lines of one file.      *)
(***************************************************************************)
NoBlock == "none"

\* the values of nonEmpty, commentOnly, withinBlock, blockType before the loop
InitState ==
    [nonEmpty |-> 0, commentOnly |-> 0, withinBlock |-> FALSE, blockType |-> NoBlock]

CountComment(s) == [s EXCEPT !.commentOnly = @ + 1]
CloseBlock(s)   == [s EXCEPT !.withinBlock = FALSE, !.blockType = NoBlock]
OpenBlock(s, k) == [s EXCEPT !.withinBlock = TRUE, !.blockType = k]

\* a mutant of InsideCBlock: the text after the terminator is scanned for a new
\* block opener
InsideCBlockRescans(s, trimmed) ==
    LET endIdx == IndexOf(trimmed, CClose)
        after  == Trim(Slice(trimmed, endIdx + 2))
    IN  IF endIdx = -1 THEN CountComment(s)
        ELSE IF after = <<>> THEN CloseBlock(CountComment(s))
        ELSE IF StartsWith(after, COpen) /\ IndexOfFrom(after, CClose, 2) = -1
             THEN CountComment(s)
             ELSE CloseBlock(s)

\* withinBlock, blockType === 'c'
InsideCBlock(s, trimmed) ==
    LET endIdx == IndexOf(trimmed, CClose)
    IN  IF endIdx = -1 THEN CountComment(s)
        ELSE IF Trim(Slice(trimmed, endIdx + 2)) = <<>>
             THEN CloseBlock(CountComment(s))
             ELSE CloseBlock(s)

\* withinBlock, blockType === 'html'
InsideHtmlBlock(s, trimmed) ==
    LET endIdx == IndexOf(trimmed, HtmlClose)
    IN  IF endIdx = -1 THEN CountComment(s)
        ELSE IF Trim(Slice(trimmed, endIdx + 3)) = <<>>
             THEN CloseBlock(CountComment(s))
             ELSE CloseBlock(s)

\* a mutant of OutsideCStyle: the unterminated opening line is counted but
\* withinBlock is not set
OutsideCStyleNoOpen(s, trimmed) ==
    IF StartsWith(trimmed, LineComment) THEN CountComment(s)
    ELSE LET sIdx == IndexOf(trimmed, COpen)
             eIdx == IndexOfFrom(trimmed, CClose, sIdx + 2)
         IN  IF sIdx = 0 /\ (eIdx = -1 \/ Trim(Slice(trimmed, eIdx + 2)) = <<>>)
             THEN CountComment(s)
             ELSE s

\* a mutant of OutsideCStyle: the terminator is searched from the start of the
\* line
OutsideCStyleFromStart(s, trimmed) ==
    IF StartsWith(trimmed, LineComment) THEN CountComment(s)
    ELSE LET sIdx == IndexOf(trimmed, COpen)
             eIdx == IndexOf(trimmed, CClose)
         IN  IF sIdx = -1 THEN s
             ELSE IF sIdx = 0
                  THEN IF eIdx = -1 THEN OpenBlock(CountComment(s), "c")
                       ELSE IF Trim(Slice(trimmed, eIdx + 2)) = <<>>
                            THEN CountComment(s)
                            ELSE s
                  ELSE s

\* not inside a block, isCStyle(ext)
OutsideCStyle(s, trimmed) ==
    IF StartsWith(trimmed, LineComment) THEN CountComment(s)
    ELSE LET sIdx == IndexOf(trimmed, COpen)
             eIdx == IndexOfFrom(trimmed, CClose, sIdx + 2)
         IN  IF sIdx = -1 THEN s
             ELSE IF sIdx = 0
                  THEN IF eIdx = -1 THEN OpenBlock(CountComment(s), "c")
                       ELSE IF Trim(Slice(trimmed, eIdx + 2)) = <<>>
                            THEN CountComment(s)
                            ELSE s
                  ELSE s

\* not inside a block, isHtmlLike(ext)
OutsideHtmlLike(s, trimmed) ==
    IF StartsWith(trimmed, HtmlOpen)
    THEN LET eIdx == IndexOf(trimmed, HtmlClose)
         IN  IF eIdx = -1 THEN OpenBlock(CountComment(s), "html")
             ELSE IF Trim(Slice(trimmed, eIdx + 3)) = <<>>
                  THEN CountComment(s)
                  ELSE s
    ELSE s

\* the part of the loop body after the withinBlock branches
OutsideBlock(s, trimmed, e) ==
    IF isCStyle(e) THEN OutsideCStyle(s, trimmed)
    ELSE IF isHtmlLike(e) THEN OutsideHtmlLike(s, trimmed)
    ELSE s

\* a mutant of NonBlankStep: the detectComments test is left out
NonBlankStepAlwaysDetects(s, trimmed, e, detect) ==
    LET s1 == [s EXCEPT !.nonEmpty = @ + 1]
    IN  IF s.withinBlock /\ s.blockType = "c" THEN InsideCBlock(s1, trimmed)
        ELSE IF s.withinBlock /\ s.blockType = "html" THEN InsideHtmlBlock(s1, trimmed)
        ELSE OutsideBlock(s1, trimmed, e)

\* the loop body for a line that is not blank
NonBlankStep(s, trimmed, e, detect) ==
    LET s1 == [s EXCEPT !.nonEmpty = @ + 1]
    IN  IF ~detect THEN s1
        ELSE IF s.withinBlock /\ s.blockType = "c" THEN InsideCBlock(s1, trimmed)
        ELSE IF s.withinBlock /\ s.blockType = "html" THEN InsideHtmlBlock(s1, trimmed)
        ELSE OutsideBlock(s1, trimmed, e)

\* the tab replacement and trim each line goes through
Trimmed(raw) == Trim(ReplaceTabs(raw))

\* a mutant of LineStep: the withinBlock branch runs before the blank test,
\* so a blank line inside a block is counted as a comment
LineStepBlankInBlock(s, raw, e, detect) ==
    IF Trimmed(raw) = <<>>
    THEN IF s.withinBlock THEN CountComment(s) ELSE s
    ELSE NonBlankStep(s, Trimmed(raw), e, detect)

\* a mutant of LineStep: the blank test is made on the raw line
LineStepNoTrim(s, raw, e, detect) ==
    IF raw = <<>> THEN s
    ELSE NonBlankStep(s, Trimmed(raw), e, detect)

\* one iteration of `for (const raw of lines)`
LineStep(s, raw, e, detect) ==
    IF Trimmed(raw) = <<>> THEN s
    ELSE NonBlankStep(s, Trimmed(raw), e, detect)

RECURSIVE FoldLines(_, _, _, _)
FoldLines(s, ls, e, detect) ==
    IF ls = <<>> THEN s
    ELSE FoldLines(LineStep(s, Head(ls), e, detect), Tail(ls), e, detect)

\* analyzeTextLines(lines, ext, detectComments) = { total, nonEmpty, commentOnly }
analyzeTextLines(ls, e, detect) ==
    LET s == FoldLines(InitState, ls, e, detect)
    IN  [total |-> Len(ls), nonEmpty |-> s.nonEmpty, commentOnly |-> s.commentOnly]

(***************************************************************************)
(* The inputs of the analyzeTextLines specifications.                      *)
(***************************************************************************)
\* one extension of each family, and one of neither
ModelExts == {ExtTs, ExtHtml, ExtMd}

Pieces ==
    {COpen, CClose, <<"/">>, HtmlOpen, HtmlClose, <<">">>, <<" ">>, <<"\t">>, <<"x">>}

\* every line that is a concatenation of at most n pieces
RECURSIVE PieceLines(_)
PieceLines(n) ==
    IF n = 0 THEN {<<>>}
    ELSE LET shorter == PieceLines(n - 1)
         IN  shorter \cup {l \o p : l \in shorter, p \in Pieces}

X == <<"x">>

\* the lines the files of SpecLines are made of, per family
SampleLines(e) ==
    IF isCStyle(e)
    THEN {<<>>, <<" ", "\t">>, LineComment \o X, COpen, COpen \o X \o CClose,
          CClose, CClose \o X, X, X \o COpen}
    ELSE IF isHtmlLike(e)
    THEN {<<>>, <<"\t">>, HtmlOpen, HtmlOpen \o X \o HtmlClose, HtmlOpen \o <<">">>,
          HtmlClose, HtmlClose \o X, X}
    ELSE {<<>>, X, LineComment \o X, COpen, HtmlOpen}

RECURSIVE FilesOf(_, _)
FilesOf(ls, n) ==
    IF n = 0 THEN {<<>>}
    ELSE {<<l>> \o f : l \in ls, f \in FilesOf(ls, n - 1)}

\* the states the loop can be in before a line, given ext and detectComments
LoopStates(e, detect) ==
    {InitState, [InitState EXCEPT !.nonEmpty = 1]}
    \cup (IF detect /\ (isCStyle(e) \/ isHtmlLike(e))
          THEN {[InitState EXCEPT !.nonEmpty = 1, !.commentOnly = 1]}
          ELSE {})
    \cup (IF detect /\ isCStyle(e)
          THEN {[nonEmpty |-> 1, commentOnly |-> 1, withinBlock |-> TRUE, blockType |-> "c"]}
          ELSE {})
    \cup (IF detect /\ isHtmlLike(e)
          THEN {[nonEmpty |-> 1, commentOnly |-> 1, withinBlock |-> TRUE, blockType |-> "html"]}
          ELSE {})

NoReport == "none"

\* run is not part of the analyzeTextLines specifications
RunIdle ==
    /\ pc = "idle"
    /\ root = <<>>
    /\ rootKind = "dir"
    /\ options = <<>>
    /\ unlistable = {}
    /\ content = <<>>
    /\ stack = <<>>
    /\ fileList = <<>>
    /\ next = 0
    /\ fileStats = <<>>
    /\ perExt = <<>>
    /\ report = NoReport
    /\ listed = <<>>
    /\ reads = <<>>
    /\ previous = <<>>

\* parseArgs is not part of the specification
ArgsIdle ==
    /\ args = <<>>
    /\ argi = 0

\* analyzeTextLines called on a file
InitLines ==
    /\ ext \in ModelExts
    /\ detectComments \in BOOLEAN
    /\ \E n \in 1..MaxLines : lines \in FilesOf(SampleLines(ext), n)
    /\ total = Len(lines)
    /\ idx = 0
    /\ st = InitState
    /\ hist = <<st>>
    /\ fileText = <<>>
    /\ RunIdle
    /\ ArgsIdle

\* the loop about to process one line, in any state it can be in
InitClassify ==
    /\ ext \in ModelExts
    /\ detectComments \in BOOLEAN
    /\ \E raw \in PieceLines(MaxPieces) : lines = <<raw>>
    /\ total = Len(lines)
    /\ idx = 0
    /\ st \in LoopStates(ext, detectComments)
    /\ hist = <<st>>
    /\ fileText = <<>>
    /\ RunIdle
    /\ ArgsIdle

\* one iteration of the loop of analyzeTextLines
Iterate ==
    /\ idx < Len(lines)
    /\ st' = LineStep(st, lines[idx + 1], ext, detectComments)
    /\ hist' = Append(hist, st')
    /\ idx' = idx + 1
    /\ UNCHANGED <<fileText, lines, ext, detectComments, total, runVars, argVars>>

SpecLines    == InitLines /\ [][Iterate]_vars
SpecClassify == InitClassify /\ [][Iterate]_vars

(***************************************************************************)
(* Paths and extensions.  A path is a sequence of segments, a segment a     *)
(* string.                                                                 *)
(***************************************************************************)
UpperCase == <<"A", "B", "C", "D", "E", "F", "G", "H", "I", "J", "K", "L", "M",
               "N", "O", "P", "Q", "R", "S", "T", "U", "V", "W", "X", "Y", "Z">>
LowerCase == <<"a", "b", "c", "d", "e", "f", "g", "h", "i", "j", "k", "l", "m",
               "n", "o", "p", "q", "r", "s", "t", "u", "v", "w", "x", "y", "z">>

ToLowerChar(c) ==
    IF \E k \in DOMAIN UpperCase : UpperCase[k] = c
    THEN LowerCase[CHOOSE k \in DOMAIN UpperCase : UpperCase[k] = c]
    ELSE c

\* String.prototype.toLowerCase
ToLowerCase(s) == [k \in DOMAIN s |-> ToLowerChar(s[k])]

\* path.extname of a base name: from the last dot, unless there is none, it is
\* the first character, or the name is ".."
ExtName(name) ==
    LET dots == {k \in DOMAIN name : name[k] = "."}
        last == CHOOSE k \in dots : \A j \in dots : j <= k
    IN  IF dots = {} THEN <<>>
        ELSE IF last = 1 THEN <<>>
        ELSE IF name = <<".", ".">> THEN <<>>
        ELSE SubSeq(name, last, Len(name))

\* s.replace(/^\./, '')
StripLeadingDot(s) == IF s # <<>> /\ Head(s) = "." THEN Tail(s) ELSE s

\* path.extname(name).toLowerCase().replace(/^\./, '')
ExtOf(name) == StripLeadingDot(ToLowerCase(ExtName(name)))

BaseName(path) == path[Len(path)]

\* path.join(dir, name)
Join(dir, name) == Append(dir, name)

\* a mutant of shouldExcludeDir: the list is searched for the joined path instead
\* of the entry's name, and no entry of the list is a joined path
shouldExcludeDirByPath(dirname, excludeList) == FALSE

shouldExcludeDir(dirname, excludeList) ==
    \E k \in DOMAIN excludeList : excludeList[k] = dirname

\* options.extensions.includes(ext)
Includes(list, x) == \E k \in DOMAIN list : list[k] = x

(***************************************************************************)
(* The file system the run reads.                                          *)
(***************************************************************************)
NodeModules == <<"n", "o", "d", "e", "_", "m", "o", "d", "u", "l", "e", "s">>
Proj     == <<"p", "r", "o", "j">>
Src      == <<"s", "r", "c">>
ATs      == <<"a", ".", "t", "s">>
BHtml    == <<"B", ".", "H", "T", "M", "L">>
DTs      == <<"d", ".", "t", "s">>
ETs      == <<"e", ".", "t", "s">>
FTs      == <<"f", ".", "t", "s">>
Makefile == <<"M", "a", "k", "e", "f", "i", "l", "e">>
DotEnv   == <<".", "e", "n", "v">>
Link     == <<"l", "i", "n", "k">>
GTs      == <<"g", ".", "t", "s">>

Entry(n, k) == [name |-> n, kind |-> k]

\* what readdir returns for the directory at `rel` below the root, in the
\* order the file system returns it
Tree(rel) ==
    IF rel = <<>>
    THEN <<Entry(ATs, "file"), Entry(NodeModules, "dir"), Entry(Link, "symlink"),
           Entry(Src, "dir"), Entry(Makefile, "file")>>
    ELSE IF rel = <<NodeModules>>
    THEN <<Entry(ETs, "file")>>
    ELSE IF rel = <<Src>>
    THEN <<Entry(BHtml, "file"), Entry(DotEnv, "file"), Entry(NodeModules, "dir"),
           Entry(DTs, "file")>>
    ELSE IF rel = <<Src, NodeModules>>
    THEN <<Entry(FTs, "file")>>
    ELSE IF rel = <<Link>>
    THEN <<Entry(GTs, "file")>>
    ELSE <<>>

\* the directories of the tree; link is a symbolic link to a directory
RelDirs  == {<<>>, <<NodeModules>>, <<Src>>, <<Src, NodeModules>>}
FilesIn(d) == {Join(d, Tree(d)[k].name) : k \in {j \in DOMAIN Tree(d) : Tree(d)[j].kind = "file"}}
RelFiles == UNION {FilesIn(d) : d \in RelDirs}

LF == "\n"
CR == "\r"

\* the text of each file
TextOf(name) ==
    IF name = ATs THEN <<"/", "/", "x", LF, LF, "x">>
    ELSE IF name = BHtml THEN <<"<", "!", "-", "-", "x", "-", "-", ">", LF, "x">>
    ELSE IF name = DTs THEN <<"/", "*", CR, LF, "x", CR, LF, "*", "/">>
    ELSE IF name = ETs THEN <<"x", LF, "/", "*", LF, LF, "x">>
    ELSE IF name = FTs THEN <<"x", CR, "/", "/">>
    ELSE <<"x">>

Unreadable == "unreadable"

Roots == {<<Proj>>, <<NodeModules>>}

(***************************************************************************)
(* analyzeFile.                                                            *)
(***************************************************************************)
\* content.split(/\r\n|\n|\r/), cur being the line collected so far
RECURSIVE SplitFrom(_, _)
SplitFrom(text, cur) ==
    IF text = <<>> THEN <<cur>>
    ELSE IF Len(text) >= 2 /\ text[1] = CR /\ text[2] = LF
         THEN <<cur>> \o SplitFrom(Tail(Tail(text)), <<>>)
    ELSE IF Head(text) = LF \/ Head(text) = CR
         THEN <<cur>> \o SplitFrom(Tail(text), <<>>)
    ELSE SplitFrom(Tail(text), Append(cur, Head(text)))

\* a mutant of SplitLines: the pattern is /\n|\r/, so the two characters of
\* \r\n are two delimiters
RECURSIVE SplitFromNoPair(_, _)
SplitFromNoPair(text, cur) ==
    IF text = <<>> THEN <<cur>>
    ELSE IF Head(text) = LF \/ Head(text) = CR
         THEN <<cur>> \o SplitFromNoPair(Tail(text), <<>>)
    ELSE SplitFromNoPair(Tail(text), Append(cur, Head(text)))

SplitLinesNoPair(text) == SplitFromNoPair(text, <<>>)

SplitLines(text) == SplitFrom(text, <<>>)

\* the FileStat analyzeFile returns for a file that was read
analyzeFile(filePath, text, opts) ==
    LET e == IF ExtOf(BaseName(filePath)) = <<>> THEN ExtUnknown
             ELSE ExtOf(BaseName(filePath))
        r == analyzeTextLines(SplitLines(text), e, opts.detectComments)
    IN  [file |-> filePath, ext |-> e, totalLines |-> r.total,
         nonEmptyLines |-> r.nonEmpty, commentOnlyLines |-> r.commentOnly]

(***************************************************************************)
(* analyzeFile on the text of one file: the split, then the loop over the  *)
(* lines.                                                                  *)
(***************************************************************************)
MaxText == 4

\* every text of at most n characters, each a line-ending character or "x"
RECURSIVE Texts(_)
Texts(n) ==
    IF n = 0 THEN {<<>>}
    ELSE Texts(n - 1) \cup {Append(t, c) : t \in {u \in Texts(n - 1) : Len(u) = n - 1},
                                           c \in {CR, LF, "x"}}

\* the file has been read, nothing is split yet
InitSplit ==
    /\ fileText \in Texts(MaxText)
    /\ ext \in ModelExts
    /\ detectComments \in BOOLEAN
    /\ lines = <<>>
    /\ total = 0
    /\ idx = 0
    /\ st = InitState
    /\ hist = <<>>
    /\ RunIdle
    /\ ArgsIdle

\* content.split(/\r\n|\n|\r/) and the entry of analyzeTextLines
SplitText ==
    /\ hist = <<>>
    /\ lines' = SplitLines(fileText)
    /\ total' = Len(lines')
    /\ idx' = 0
    /\ st' = InitState
    /\ hist' = <<InitState>>
    /\ UNCHANGED <<fileText, ext, detectComments, runVars, argVars>>

NextSplit == \/ SplitText \/ Iterate

SpecSplit == InitSplit /\ [][NextSplit]_vars

(***************************************************************************)
(* run: the aggregation.                                                   *)
(***************************************************************************)
\* a mutant of FoldPerExt: an extension seen before gets its entry replaced, as
\* if perExt.get had returned nothing
FoldPerExtOverwrite(pe, s) ==
    LET fresh == [ext |-> s.ext, files |-> 1, totalLines |-> s.totalLines,
                  nonEmpty |-> s.nonEmptyLines, comments |-> s.commentOnlyLines]
    IN  IF \E k \in DOMAIN pe : pe[k].ext = s.ext
        THEN [k \in DOMAIN pe |-> IF pe[k].ext = s.ext THEN fresh ELSE pe[k]]
        ELSE Append(pe, fresh)

\* the perExt map as the sequence of its entries in insertion order;
\* this is lines 332-337 for one FileStat
FoldPerExt(pe, s) ==
    IF \E k \in DOMAIN pe : pe[k].ext = s.ext
    THEN [k \in DOMAIN pe |->
            IF pe[k].ext = s.ext
            THEN [pe[k] EXCEPT !.files = @ + 1,
                               !.totalLines = @ + s.totalLines,
                               !.nonEmpty = @ + s.nonEmptyLines,
                               !.comments = @ + s.commentOnlyLines]
            ELSE pe[k]]
    ELSE Append(pe, [ext |-> s.ext, files |-> 1, totalLines |-> s.totalLines,
                     nonEmpty |-> s.nonEmptyLines, comments |-> s.commentOnlyLines])

RECURSIVE SumSeq(_)
SumSeq(q) == IF q = <<>> THEN 0 ELSE Head(q) + SumSeq(Tail(q))

\* a mutant of CompareTotalLines: ascending
CompareTotalLinesAscending(a, b) == a.totalLines - b.totalLines

\* the comparator (a, b) => b.totalLines - a.totalLines
CompareTotalLines(a, b) == b.totalLines - a.totalLines

\* x placed in the sorted sequence q before the first element the comparator
\* puts after it
InsertSorted(q, x) ==
    LET later == {k \in DOMAIN q : CompareTotalLines(q[k], x) > 0}
        at    == IF later = {} THEN Len(q) + 1
                 ELSE CHOOSE k \in later : \A j \in later : k <= j
    IN  SubSeq(q, 1, at - 1) \o <<x>> \o SubSeq(q, at, Len(q))

\* a mutant of SortByTotalLines: an unstable sort, equal elements end up in
\* reverse order
RECURSIVE SortReversingTies(_)
SortReversingTies(q) ==
    IF q = <<>> THEN <<>>
    ELSE LET rest == SortReversingTies(Tail(q))
             later == {k \in DOMAIN rest : CompareTotalLines(rest[k], Head(q)) > 0}
             at    == IF later = {} THEN Len(rest) + 1
                      ELSE CHOOSE k \in later : \A j \in later : k <= j
         IN  SubSeq(rest, 1, at - 1) \o <<Head(q)>> \o SubSeq(rest, at, Len(rest))

\* Array.prototype.sort with CompareTotalLines: a stable sort
RECURSIVE SortByTotalLines(_)
SortByTotalLines(q) ==
    IF q = <<>> THEN <<>>
    ELSE InsertSorted(SortByTotalLines(SubSeq(q, 1, Len(q) - 1)), q[Len(q)])

\* a mutant of TakeFirst: slice(0, top + 1)
TakeFirstOneMore(q, n) == SubSeq(q, 1, Min(n + 1, Len(q)))

\* q.slice(0, n), n >= 0
TakeFirst(q, n) == SubSeq(q, 1, Min(n, Len(q)))

\* [...fileStats].sort(...).slice(0, options.top)
Largest(stats, top) == TakeFirst(SortByTotalLines(stats), top)

\* everything run prints, in either format
MakeReport(target, stats, pe, top) ==
    [target |-> target,
     totalFiles |-> Len(stats),
     totalLines |-> SumSeq([k \in DOMAIN stats |-> stats[k].totalLines]),
     totalNonEmpty |-> SumSeq([k \in DOMAIN stats |-> stats[k].nonEmptyLines]),
     totalCommentOnlyLines |-> SumSeq([k \in DOMAIN stats |-> stats[k].commentOnlyLines]),
     perExtension |-> SortByTotalLines(pe),
     largestFiles |-> [k \in DOMAIN Largest(stats, top) |->
                         [file |-> Largest(stats, top)[k].file,
                          lines |-> Largest(stats, top)[k].totalLines]]]

\* opt.top = Math.max(0, Number(val))
ParseTop(val) == Max(0, val)

(***************************************************************************)
(* run: the state machine.                                                 *)
(***************************************************************************)
\* analyzeTextLines is not running on its own in the run specification
LinesIdle ==
    /\ fileText = <<>>
    /\ lines = <<>>
    /\ ext = <<>>
    /\ detectComments = FALSE
    /\ idx = 0
    /\ total = 0
    /\ st = InitState
    /\ hist = <<>>

\* the path below the root
Rel(path) == SubSeq(path, Len(root) + 1, Len(path))

Frame(d) == [dir |-> d, i |-> 1]

\* a mutant of CallWalkDir: readdir is not in a try block, so its error unwinds
\* every walkDir activation
CallWalkDirThrows(stk, d) == IF d \in unlistable THEN <<>> ELSE Append(stk, Frame(d))

\* the stack after `await walkDir(d, ...)` is called from the stack stk:
\* readdir throws and the call returns at once, or the loop over the entries starts
CallWalkDir(stk, d) == IF d \in unlistable THEN stk ELSE Append(stk, Frame(d))

Top == stack[Len(stack)]
TopEntries == Tree(Rel(Top.dir))
TopEntry == TopEntries[Top.i]

\* the stack with the innermost loop moved to its next entry
Advanced == [stack EXCEPT ![Len(stack)].i = @ + 1]

Init ==
    /\ LinesIdle
    /\ ArgsIdle
    /\ previous = <<>>
    /\ pc = "stat"
    /\ root \in Roots
    /\ rootKind \in {"missing", "file", "dir"}
    /\ \E exts \in {<<>>, <<ExtTs>>}, excl \in {<<>>, <<NodeModules>>},
          detect \in BOOLEAN, topArg \in -1..MaxTop :
         options = [extensions |-> exts, excludeDirs |-> excl,
                    detectComments |-> detect, top |-> ParseTop(topArg)]
    /\ IF rootKind = "dir"
       THEN /\ unlistable \in {{}, {root}, {Join(root, Src)},
                                {Join(Join(root, Src), NodeModules)}}
            /\ \E bad \in SUBSET {f \in RelFiles : ExtOf(BaseName(f)) # <<>>} :
                 content = [f \in {root \o r : r \in RelFiles} |->
                              IF Rel(f) \in bad THEN Unreadable ELSE TextOf(BaseName(f))]
       ELSE /\ unlistable = {}
            /\ content = <<>>
    /\ stack = <<>>
    /\ fileList = <<>>
    /\ next = 0
    /\ fileStats = <<>>
    /\ perExt = <<>>
    /\ report = NoReport
    /\ listed = <<>>
    /\ reads = <<>>

\* fs.stat throws: 'Path not found', process.exit(2)
StatFails ==
    /\ pc = "stat"
    /\ rootKind = "missing"
    /\ pc' = "exit2"
    /\ UNCHANGED <<lineVars, argVars, previous, root, rootKind, options, unlistable, content, stack,
                   fileList, next, fileStats, perExt, report, listed, reads>>

\* a mutant of NotADirectory: the message is printed but process.exit is not
\* called, so run goes on to walkDir, whose readdir throws
NotADirectoryGoesOn ==
    /\ pc = "stat"
    /\ rootKind = "file"
    /\ pc' = "walk"
    /\ listed' = Append(listed, root)
    /\ UNCHANGED <<lineVars, argVars, previous, root, rootKind, options, unlistable, content, stack,
                   fileList, next, fileStats, perExt, report, reads>>

\* !stat.isDirectory(): 'Provided path must be a directory', process.exit(2)
NotADirectory ==
    /\ pc = "stat"
    /\ rootKind = "file"
    /\ pc' = "exit2"
    /\ UNCHANGED <<lineVars, argVars, previous, root, rootKind, options, unlistable, content, stack,
                   fileList, next, fileStats, perExt, report, listed, reads>>

\* a mutant of StartWalk: fileList is not created by the call but kept at
\* module level, so a second call starts from the list of the first
StartWalkKeepsFileList ==
    /\ pc = "stat"
    /\ rootKind = "dir"
    /\ pc' = "walk"
    /\ stack' = CallWalkDir(stack, root)
    /\ listed' = Append(listed, root)
    /\ UNCHANGED <<lineVars, argVars, previous, root, rootKind, options, unlistable,
                   content, fileList, next, fileStats, perExt, report, reads>>

\* the root is a directory: walkDir(targetPath, options, fileList) is called
StartWalk ==
    /\ pc = "stat"
    /\ rootKind = "dir"
    /\ pc' = "walk"
    /\ fileList' = <<>>
    /\ stack' = CallWalkDir(stack, root)
    /\ listed' = Append(listed, root)
    /\ UNCHANGED <<lineVars, argVars, previous, root, rootKind, options, unlistable, content,
                   next, fileStats, perExt, report, reads>>

\* walkDir: the entry is a directory that is not excluded
WalkDescend ==
    /\ pc = "walk" /\ stack # <<>> /\ Top.i <= Len(TopEntries)
    /\ TopEntry.kind = "dir"
    /\ ~shouldExcludeDir(TopEntry.name, options.excludeDirs)
    /\ stack' = CallWalkDir(Advanced, Join(Top.dir, TopEntry.name))
    /\ listed' = Append(listed, Join(Top.dir, TopEntry.name))
    /\ UNCHANGED <<lineVars, argVars, previous, pc, root, rootKind, options, unlistable, content,
                   fileList, next, fileStats, perExt, report, reads>>

\* walkDir: the entry is an excluded directory
WalkSkipExcluded ==
    /\ pc = "walk" /\ stack # <<>> /\ Top.i <= Len(TopEntries)
    /\ TopEntry.kind = "dir"
    /\ shouldExcludeDir(TopEntry.name, options.excludeDirs)
    /\ stack' = Advanced
    /\ UNCHANGED <<lineVars, argVars, previous, pc, root, rootKind, options, unlistable, content,
                   fileList, next, fileStats, perExt, report, listed, reads>>

\* a mutant of PassesFilter: the test for an empty allow-list is missing
PassesFilterNoEmptyTest(name, opts) ==
    /\ ExtOf(name) # <<>>
    /\ Includes(opts.extensions, ExtOf(name))

\* a file name passes the filters of walkDir
PassesFilter(name, opts) ==
    /\ ExtOf(name) # <<>>
    /\ ~(Len(opts.extensions) > 0 /\ ~Includes(opts.extensions, ExtOf(name)))

\* walkDir: the entry is a regular file
WalkFile ==
    /\ pc = "walk" /\ stack # <<>> /\ Top.i <= Len(TopEntries)
    /\ TopEntry.kind = "file"
    /\ fileList' = IF PassesFilter(TopEntry.name, options)
                   THEN Append(fileList, Join(Top.dir, TopEntry.name))
                   ELSE fileList
    /\ stack' = Advanced
    /\ UNCHANGED <<lineVars, argVars, previous, pc, root, rootKind, options, unlistable, content,
                   next, fileStats, perExt, report, listed, reads>>

\* walkDir: the entry is neither a directory nor a regular file
WalkOther ==
    /\ pc = "walk" /\ stack # <<>> /\ Top.i <= Len(TopEntries)
    /\ TopEntry.kind \notin {"dir", "file"}
    /\ stack' = Advanced
    /\ UNCHANGED <<lineVars, argVars, previous, pc, root, rootKind, options, unlistable, content,
                   fileList, next, fileStats, perExt, report, listed, reads>>

\* walkDir: the loop over the entries is over, the call returns
WalkReturn ==
    /\ pc = "walk" /\ stack # <<>> /\ Top.i > Len(TopEntries)
    /\ stack' = SubSeq(stack, 1, Len(stack) - 1)
    /\ UNCHANGED <<lineVars, argVars, previous, pc, root, rootKind, options, unlistable, content,
                   fileList, next, fileStats, perExt, report, listed, reads>>

\* the outermost walkDir has returned: perExt and fileStats are created
WalkDone ==
    /\ pc = "walk" /\ stack = <<>>
    /\ pc' = "analyze"
    /\ perExt' = <<>>
    /\ fileStats' = <<>>
    /\ next' = 0
    /\ UNCHANGED <<lineVars, argVars, previous, root, rootKind, options, unlistable, content, stack,
                   fileList, report, listed, reads>>

\* a mutant of AnalyzeSkipped: the unreadable file is counted as an empty text
AnalyzeSkippedAsEmpty ==
    /\ pc = "analyze" /\ next < Len(fileList)
    /\ content[fileList[next + 1]] = Unreadable
    /\ LET s == analyzeFile(fileList[next + 1], <<>>, options)
       IN  /\ fileStats' = Append(fileStats, s)
           /\ perExt' = FoldPerExt(perExt, s)
    /\ reads' = Append(reads, fileList[next + 1])
    /\ next' = next + 1
    /\ UNCHANGED <<lineVars, argVars, previous, pc, root, rootKind, options, unlistable, content, stack,
                   fileList, report, listed>>

\* a mutant of AnalyzeSkipped: the failure of readFile is not caught and ends
\* the run
AnalyzeSkippedExits ==
    /\ pc = "analyze" /\ next < Len(fileList)
    /\ content[fileList[next + 1]] = Unreadable
    /\ reads' = Append(reads, fileList[next + 1])
    /\ pc' = "exit2"
    /\ UNCHANGED <<lineVars, argVars, previous, next, root, rootKind, options, unlistable, content,
                   stack, fileList, fileStats, perExt, report, listed>>

\* for (const file of fileList): readFile throws, analyzeFile returns null
AnalyzeSkipped ==
    /\ pc = "analyze" /\ next < Len(fileList)
    /\ content[fileList[next + 1]] = Unreadable
    /\ reads' = Append(reads, fileList[next + 1])
    /\ next' = next + 1
    /\ UNCHANGED <<lineVars, argVars, previous, pc, root, rootKind, options, unlistable, content, stack,
                   fileList, fileStats, perExt, report, listed>>

\* a mutant of AnalyzeCounted: withinBlock and blockType outlive the call of
\* analyzeTextLines, so a file starts in the block state the last analysed file
\* ended in
AnalyzeCountedCarriesBlock ==
    /\ pc = "analyze" /\ next < Len(fileList)
    /\ content[fileList[next + 1]] # Unreadable
    /\ LET own   == analyzeFile(fileList[next + 1], content[fileList[next + 1]], options)
           last  == fileStats[Len(fileStats)]
           left  == IF fileStats = <<>> THEN InitState
                    ELSE FoldLines(InitState, SplitLines(content[last.file]), last.ext,
                                   options.detectComments)
           start == [InitState EXCEPT !.withinBlock = left.withinBlock,
                                      !.blockType = left.blockType]
           end   == FoldLines(start, SplitLines(content[fileList[next + 1]]), own.ext,
                              options.detectComments)
           s     == [own EXCEPT !.nonEmptyLines = end.nonEmpty,
                                !.commentOnlyLines = end.commentOnly]
       IN  /\ fileStats' = Append(fileStats, s)
           /\ perExt' = FoldPerExt(perExt, s)
    /\ reads' = Append(reads, fileList[next + 1])
    /\ next' = next + 1
    /\ UNCHANGED <<lineVars, argVars, previous, pc, root, rootKind, options, unlistable, content, stack,
                   fileList, report, listed>>

\* for (const file of fileList): the file is read, pushed and folded into perExt
AnalyzeCounted ==
    /\ pc = "analyze" /\ next < Len(fileList)
    /\ content[fileList[next + 1]] # Unreadable
    /\ LET s == analyzeFile(fileList[next + 1], content[fileList[next + 1]], options)
       IN  /\ fileStats' = Append(fileStats, s)
           /\ perExt' = FoldPerExt(perExt, s)
    /\ reads' = Append(reads, fileList[next + 1])
    /\ next' = next + 1
    /\ UNCHANGED <<lineVars, argVars, previous, pc, root, rootKind, options, unlistable, content, stack,
                   fileList, report, listed>>

\* the summaries and the output
Summarize ==
    /\ pc = "analyze" /\ next = Len(fileList)
    /\ report' = MakeReport(root, fileStats, perExt, options.top)
    /\ pc' = "done"
    /\ UNCHANGED <<lineVars, argVars, previous, root, rootKind, options, unlistable, content, stack,
                   fileList, next, fileStats, perExt, listed, reads>>

Next ==
    \/ StatFails
    \/ NotADirectory
    \/ StartWalk
    \/ WalkDescend
    \/ WalkSkipExcluded
    \/ WalkFile
    \/ WalkOther
    \/ WalkReturn
    \/ WalkDone
    \/ AnalyzeSkipped
    \/ AnalyzeCounted
    \/ Summarize

Spec == Init /\ [][Next]_vars

\* where run is: its statement, the walkDir activations and the file loop index
control == <<pc, stack, next>>

\* how a step of run moves control, whatever the step computes: every step of
\* Next is a step of RunControl that changes control
RunControl ==
    \/ /\ pc = "stat"
       /\ pc' = IF rootKind = "dir" THEN "walk" ELSE "exit2"
       /\ stack' = IF rootKind = "dir" THEN CallWalkDir(stack, root) ELSE stack
       /\ next' = next
    \/ /\ pc = "walk" /\ stack # <<>>
       /\ pc' = pc
       /\ stack' = IF Top.i > Len(TopEntries) THEN SubSeq(stack, 1, Len(stack) - 1)
                   ELSE IF /\ TopEntry.kind = "dir"
                           /\ ~shouldExcludeDir(TopEntry.name, options.excludeDirs)
                        THEN CallWalkDir(Advanced, Join(Top.dir, TopEntry.name))
                        ELSE Advanced
       /\ next' = next
    \/ /\ pc = "walk" /\ stack = <<>>
       /\ pc' = "analyze"
       /\ stack' = stack
       /\ next' = 0
    \/ /\ pc = "analyze"
       /\ pc' = IF next < Len(fileList) THEN pc ELSE "done"
       /\ stack' = stack
       /\ next' = IF next < Len(fileList) THEN next + 1 ELSE next

\* run is awaited to its end: the awaited file-system calls return and control
\* moves on while a statement is left to execute
SpecFair == Spec /\ WF_control(RunControl)

\* run is called again with the same arguments on the unchanged file system; the
\* locals of the first call are dead, and the calls made are recorded anew
Rerun ==
    /\ pc = "done"
    /\ previous = <<>>
    /\ previous' = <<report>>
    /\ pc' = "stat"
    /\ report' = NoReport
    /\ listed' = <<>>
    /\ reads' = <<>>
    /\ UNCHANGED <<lineVars, argVars, root, rootKind, options, unlistable, content,
                   stack, fileList, next, fileStats, perExt>>

NextTwice ==
    \/ Next
    \/ Rerun

SpecTwice == Init /\ [][NextTwice]_vars

(***************************************************************************)
(* parseArgs: the loop over the command-line arguments.  targetPath is the *)
(* variable root, opt the variable options, i the variable argi.           *)
(***************************************************************************)
MaxArgs == 3

Dash     == <<"-">>
DashDash == <<"-", "-">>
Comma    == ","

FlagExt             == <<"-", "-", "e", "x", "t">>
FlagExtensions      == <<"-", "-", "e", "x", "t", "e", "n", "s", "i", "o", "n", "s">>
FlagExclude         == <<"-", "-", "e", "x", "c", "l", "u", "d", "e">>
FlagCountEmpty      == <<"-", "-", "c", "o", "u", "n", "t", "-", "e", "m", "p", "t", "y">>
FlagNoCountComments == <<"-", "-", "n", "o", "-", "c", "o", "u", "n", "t", "-", "c", "o", "m", "m", "e", "n", "t", "s">>
FlagFormat          == <<"-", "-", "f", "o", "r", "m", "a", "t">>
FlagTop             == <<"-", "-", "t", "o", "p">>
FlagHelp            == <<"-", "-", "h", "e", "l", "p">>
FlagH               == <<"-", "h">>

FormatText == <<"t", "e", "x", "t">>
FormatJson == <<"j", "s", "o", "n">>

DotGit   == <<".", "g", "i", "t">>
Dist     == <<"d", "i", "s", "t">>
Build    == <<"b", "u", "i", "l", "d">>
DotNext  == <<".", "n", "e", "x", "t">>
Out      == <<"o", "u", "t">>
Coverage == <<"c", "o", "v", "e", "r", "a", "g", "e">>
Public   == <<"p", "u", "b", "l", "i", "c">>

DefaultTop == 10

DEFAULT_OPTIONS ==
    [extensions     |-> <<ExtTs, ExtTsx, ExtJs, ExtJsx, ExtCss, ExtScss, ExtSass, ExtLess,
                         ExtHtml, ExtVue>>,
     excludeDirs    |-> <<NodeModules, DotGit, Dist, Build, DotNext, Out, Coverage, Public>>,
     countEmpty     |-> FALSE,
     detectComments |-> TRUE,
     format         |-> FormatText,
     top            |-> DefaultTop]

\* process.cwd()
Cwd == <<<<"w", "d">>>>

\* path.resolve(a), for a relative path of one segment
Resolve(a) == Join(Cwd, a)

\* s.split(','), cur being the piece collected so far
RECURSIVE SplitCommas(_, _)
SplitCommas(s, cur) ==
    IF s = <<>> THEN <<cur>>
    ELSE IF Head(s) = Comma THEN <<cur>> \o SplitCommas(Tail(s), <<>>)
    ELSE SplitCommas(Tail(s), Append(cur, Head(s)))

RECURSIVE TrimAll(_)
TrimAll(q) == IF q = <<>> THEN <<>> ELSE <<Trim(Head(q))>> \o TrimAll(Tail(q))

NonEmpty(p) == p # <<>>

\* popt: s.split(',').map((p) => p.trim()).filter(Boolean), s being truthy
popt(s) == SelectSeq(TrimAll(SplitCommas(s, <<>>)), NonEmpty)

Digits == <<"0", "1", "2", "3", "4", "5", "6", "7", "8", "9">>

\* Number(val) of a string of decimal digits
RECURSIVE DigitsValue(_)
DigitsValue(s) ==
    IF s = <<>> THEN 0
    ELSE 10 * DigitsValue(SubSeq(s, 1, Len(s) - 1))
         + (CHOOSE k \in DOMAIN Digits : Digits[k] = s[Len(s)]) - 1

\* isNaN(Number(val)), val being truthy: a string of decimal digits is a number,
\* any other string of the model is not
IsNaNNumber(val) == ~(\A k \in DOMAIN val : \E d \in DOMAIN Digits : Digits[d] = val[k])

\* the locals after one iteration of the loop, i++ included; exit is whether
\* printHelpAndExit was called
ParseOne(as, i, targetPath, opt) ==
    LET a      == as[i + 1]
        hasVal == i + 2 <= Len(as) /\ as[i + 2] # <<>>
        val    == as[i + 2]
        same   == [targetPath |-> targetPath, opt |-> opt, i |-> i + 1, exit |-> FALSE]
    IN  IF a = <<>> THEN same
        ELSE IF ~StartsWith(a, Dash) /\ i = 0
             THEN [same EXCEPT !.targetPath = Resolve(a)]
        ELSE IF a = FlagExt \/ a = FlagExtensions
             THEN IF hasVal /\ ~StartsWith(val, DashDash)
                  THEN [same EXCEPT
                          !.opt = [opt EXCEPT !.extensions =
                                     [k \in DOMAIN popt(val) |->
                                        ToLowerCase(StripLeadingDot(popt(val)[k]))]],
                          !.i = i + 2]
                  ELSE same
        ELSE IF a = FlagExclude
             THEN IF hasVal /\ ~StartsWith(val, DashDash)
                  THEN [same EXCEPT !.opt = [opt EXCEPT !.excludeDirs = popt(val)],
                                    !.i = i + 2]
                  ELSE same
        ELSE IF a = FlagCountEmpty
             THEN [same EXCEPT !.opt = [opt EXCEPT !.countEmpty = TRUE]]
        ELSE IF a = FlagNoCountComments
             THEN [same EXCEPT !.opt = [opt EXCEPT !.detectComments = FALSE]]
        ELSE IF a = FlagFormat
             THEN IF hasVal /\ (val = FormatJson \/ val = FormatText)
                  THEN [same EXCEPT !.opt = [opt EXCEPT !.format = val], !.i = i + 2]
                  ELSE same
        ELSE IF a = FlagTop
             THEN IF hasVal /\ ~IsNaNNumber(val)
                  THEN [same EXCEPT !.opt = [opt EXCEPT !.top = ParseTop(DigitsValue(val))],
                                    !.i = i + 2]
                  ELSE same
        ELSE IF a = FlagHelp \/ a = FlagH
             THEN [same EXCEPT !.exit = TRUE]
        ELSE IF ~StartsWith(a, Dash)
             THEN [same EXCEPT !.targetPath = Resolve(a)]
             ELSE same

\* the arguments of the model: the empty string, two paths, flags, and values
\* a flag takes or refuses
ArgTokens ==
    {<<>>, Proj, Src, FlagExt, <<".", "T", "S", ",", " ", "j", "s">>, FlagExclude, FlagCountEmpty,
     FlagNoCountComments, FlagFormat, FormatJson, <<"x", "m", "l">>, FlagTop, <<"2">>, FlagH}

\* every argument list of at most n arguments
RECURSIVE ArgLists(_)
ArgLists(n) ==
    IF n = 0 THEN {<<>>}
    ELSE ArgLists(n - 1) \cup {Append(l, t) : l \in {u \in ArgLists(n - 1) : Len(u) = n - 1},
                                              t \in ArgTokens}

\* parseArgs(process.argv) is entered: args = argv.slice(2)
InitArgs ==
    /\ LinesIdle
    /\ args \in ArgLists(MaxArgs)
    /\ argi = 0
    /\ pc = "parse"
    /\ root = Cwd
    /\ options = DEFAULT_OPTIONS
    /\ rootKind = "dir"
    /\ unlistable = {}
    /\ content = <<>>
    /\ stack = <<>>
    /\ fileList = <<>>
    /\ next = 0
    /\ fileStats = <<>>
    /\ perExt = <<>>
    /\ report = NoReport
    /\ listed = <<>>
    /\ reads = <<>>
    /\ previous = <<>>

\* one iteration of `for (let i = 0; i < args.length; i++)`; printHelpAndExit
\* ends the process with process.exit(0)
ParseArg ==
    /\ pc = "parse" /\ argi < Len(args)
    /\ LET r == ParseOne(args, argi, root, options)
       IN  /\ root' = r.targetPath
           /\ options' = r.opt
           /\ argi' = r.i
           /\ pc' = IF r.exit THEN "exit0" ELSE pc
    /\ UNCHANGED <<lineVars, args, previous, rootKind, unlistable, content, stack,
                   fileList, next, fileStats, perExt, report, listed, reads>>

\* return { targetPath, options: opt }
ParseReturn ==
    /\ pc = "parse" /\ argi >= Len(args)
    /\ pc' = "parsed"
    /\ UNCHANGED <<lineVars, argVars, previous, root, rootKind, options, unlistable, content,
                   stack, fileList, next, fileStats, perExt, report, listed, reads>>

NextArgs == \/ ParseArg \/ ParseReturn

SpecArgs == InitArgs /\ [][NextArgs]_vars

(***************************************************************************)
(* Claims about analyzeTextLines.                                          *)
(***************************************************************************)
Blank(i) == Trimmed(lines[i]) = <<>>

\* line i was counted as comment-only
CountedComment(i) == hist[i + 1].commentOnly = hist[i].commentOnly + 1

\* C1: after every processed line of every file, for every extension and with
\* comment detection on or off, 0 <= commentOnly <= nonEmpty <= total.
C1_CountsOrdered ==
    /\ 0 <= st.commentOnly
    /\ st.commentOnly <= st.nonEmpty
    /\ st.nonEmpty <= total

\* a finished file with a comment line, a code line and a blank line
C1_Witness ==
    /\ idx = Len(lines)
    /\ 0 < st.commentOnly
    /\ st.commentOnly < st.nonEmpty
    /\ st.nonEmpty < total

\* line i starts with the c block opener outside a block, has no terminator
\* after the opener, and no processed line after it holds a terminator
OpensUnterminated(i) ==
    /\ ~hist[i].withinBlock
    /\ StartsWith(Trimmed(lines[i]), COpen)
    /\ IndexOfFrom(Trimmed(lines[i]), CClose, 2) = -1
    /\ \A j \in (i + 1)..idx : IndexOf(Trimmed(lines[j]), CClose) = -1

CStyleDetecting == isCStyle(ext) /\ detectComments

\* C4 as stated: in a c-style file with detection on, when a line starting with
\* the block opener opens a block that is not terminated before the end of the
\* file, every line from that line to the end of the file counts as comment-only.
C4_EveryLineCounted ==
    (CStyleDetecting /\ idx = Len(lines)) =>
        \A i \in 1..idx : OpensUnterminated(i) =>
            \A j \in i..idx : CountedComment(j)

\* C4 as amended: every line that is not blank, from the opening line to the end
\* of the file, counts as comment-only, and a blank line among them counts as
\* neither non-empty nor comment-only.
C4_NonBlankLinesCounted ==
    (CStyleDetecting /\ idx = Len(lines)) =>
        \A i \in 1..idx : OpensUnterminated(i) =>
            \A j \in i..idx :
                IF Blank(j) THEN hist[j + 1] = hist[j]
                ELSE CountedComment(j) /\ hist[j + 1].withinBlock

\* a finished c-style file whose unterminated block holds a blank line and a
\* line of text after the opening line
C4_Witness ==
    /\ CStyleDetecting
    /\ idx = Len(lines)
    /\ \E i \in 1..idx :
        /\ OpensUnterminated(i)
        /\ \E j, k \in (i + 1)..idx : Blank(j) /\ ~Blank(k)

\* C5: for an html-style file, a line outside a block that starts with the html
\* opener is a self-contained comment only when the html terminator appears after
\* the opening token (comment-only iff nothing follows the terminator, block not
\* opened); with no such terminator the line is comment-only and the block opens:
\* the c-style rule with the html tokens substituted.
C5_HtmlRuleAsCStyle ==
    (/\ isHtmlLike(ext)
     /\ detectComments
     /\ idx = 1
     /\ ~hist[1].withinBlock
     /\ StartsWith(Trimmed(lines[1]), HtmlOpen)) =>
        LET t    == Trimmed(lines[1])
            eIdx == IndexOfFrom(t, HtmlClose, Len(HtmlOpen))
        IN  IF eIdx = -1
            THEN CountedComment(1) /\ st.withinBlock /\ st.blockType = "html"
            ELSE /\ ~st.withinBlock
                 /\ CountedComment(1) <=> (Trim(Slice(t, eIdx + 3)) = <<>>)


(***************************************************************************)
(* Claims about run.                                                       *)
(***************************************************************************)
Indices(q) == DOMAIN q

\* the sum of a field over the records of a sequence
RECURSIVE Sigma(_, _)
Sigma(q, field) ==
    IF q = <<>> THEN 0
    ELSE Sigma(SubSeq(q, 1, Len(q) - 1), field) + q[Len(q)][field]

WithExt(q, e) == SelectSeq(q, LAMBDA s : s.ext = e)

\* the entries of a per-extension summary are exactly the sums over the records
SummaryOf(pe, stats) ==
    /\ \A k \in Indices(stats) : \E j \in Indices(pe) : pe[j].ext = stats[k].ext
    /\ \A j, k \in Indices(pe) : pe[j].ext = pe[k].ext => j = k
    /\ \A j \in Indices(pe) :
        /\ pe[j].files = Len(WithExt(stats, pe[j].ext))
        /\ pe[j].files > 0
        /\ pe[j].totalLines = Sigma(WithExt(stats, pe[j].ext), "totalLines")
        /\ pe[j].nonEmpty = Sigma(WithExt(stats, pe[j].ext), "nonEmptyLines")
        /\ pe[j].comments = Sigma(WithExt(stats, pe[j].ext), "commentOnlyLines")

\* C2: while and after run folds the discovered files, each per-extension
\* summary field is the sum over the FileStats of that extension, and in the
\* report each total equals the sum over the FileStats and the sum over the
\* per-extension entries.
C2_SumsAgree ==
    /\ pc \in {"analyze", "done"} => SummaryOf(perExt, fileStats)
    /\ pc = "done" =>
        /\ SummaryOf(report.perExtension, fileStats)
        /\ report.totalFiles = Len(fileStats)
        /\ report.totalFiles = Sigma(report.perExtension, "files")
        /\ report.totalLines = Sigma(fileStats, "totalLines")
        /\ report.totalLines = Sigma(report.perExtension, "totalLines")
        /\ report.totalNonEmpty = Sigma(fileStats, "nonEmptyLines")
        /\ report.totalNonEmpty = Sigma(report.perExtension, "nonEmpty")
        /\ report.totalCommentOnlyLines = Sigma(fileStats, "commentOnlyLines")
        /\ report.totalCommentOnlyLines = Sigma(report.perExtension, "comments")

\* a report over two extensions, one of them with two files, with a file skipped
C2_Witness ==
    /\ pc = "done"
    /\ Len(report.perExtension) >= 2
    /\ \E j \in Indices(perExt) : perExt[j].files >= 2
    /\ Len(reads) > Len(fileStats)
    /\ report.totalCommentOnlyLines > 0

\* the paths of the FileStats and of the report's largest files
RecordedFiles ==
    {fileStats[k].file : k \in Indices(fileStats)}
    \cup (IF pc # "done" THEN {}
          ELSE {report.largestFiles[k].file : k \in Indices(report.largestFiles)})
    \cup {fileList[k] : k \in Indices(fileList)}

\* the names given as excludeDirs
ExcludedNames == {options.excludeDirs[k] : k \in Indices(options.excludeDirs)}

\* the file lies beneath a segment, at a position after `from`, whose name is
\* exactly one of the excluded names
BeneathExcluded(f, from) ==
    \E k \in (from + 1)..(Len(f) - 1) : f[k] \in ExcludedNames

\* C3 as stated: no file beneath any path segment named exactly as an entry of
\* excludeDirs appears in the file records, at any depth.
C3_NoSegmentExcluded == \A f \in RecordedFiles : ~BeneathExcluded(f, 0)

\* C3 as amended: no file beneath a path segment below the target directory
\* that is named exactly as an entry of excludeDirs appears in the file list, the
\* FileStats or the report, at any depth; the segments of the target path itself
\* are not tested.
C3_NoSegmentBelowRootExcluded ==
    \A f \in RecordedFiles : ~BeneathExcluded(f, Len(root))

\* a finished run that excluded node_modules and recorded files
C3_Witness ==
    /\ pc = "done"
    /\ NodeModules \in ExcludedNames
    /\ Len(fileStats) >= 2
    /\ \A d \in RelDirs : root \o d \notin unlistable

\* the extensions that appear in the FileStats, the summaries and the report
RecordedExts ==
    {fileStats[k].ext : k \in Indices(fileStats)}
    \cup {perExt[k].ext : k \in Indices(perExt)}
    \cup (IF pc # "done" THEN {}
          ELSE {report.perExtension[k].ext : k \in Indices(report.perExtension)})
    \cup {ExtOf(BaseName(f)) : f \in RecordedFiles}

\* the regular files of the tree that have an extension, as full paths
ExtensionedFiles == {root \o r : r \in {x \in RelFiles : ExtOf(BaseName(x)) # <<>>}}

\* every directory from the root down to the file's own can be listed
Listable(f) == \A k \in Len(root)..(Len(f) - 1) : SubSeq(f, 1, k) \notin unlistable

Readable(f) == content[f] # Unreadable

InFileList(f) == \E k \in Indices(fileList) : fileList[k] = f
InFileStats(f) == \E k \in Indices(fileStats) : fileStats[k].file = f

AllowListFilters ==
    Len(options.extensions) > 0 =>
        \A e \in RecordedExts : Includes(options.extensions, e)

\* C6 as stated: with a non-empty allow-list no file whose lowercased extension
\* is outside the list appears anywhere in the report; with an empty allow-list
\* every regular file that has an extension and is not under an excluded
\* directory is included.
C6_AllExtensionedIncluded ==
    /\ AllowListFilters
    /\ (pc = "done" /\ Len(options.extensions) = 0) =>
        \A f \in ExtensionedFiles :
            ~BeneathExcluded(f, Len(root)) => InFileStats(f)

\* C6 as amended: with a non-empty allow-list no file whose lowercased extension
\* is outside the list appears anywhere in the report; with an empty allow-list
\* every regular file that has an extension, is not under an excluded directory
\* below the target and lies in directories that can all be listed is in the file
\* list, and it is counted in the report exactly when it can be read.
C6_ReachableExtensionedIncluded ==
    /\ AllowListFilters
    /\ (pc \in {"analyze", "done"} /\ Len(options.extensions) = 0) =>
        \A f \in ExtensionedFiles :
            (~BeneathExcluded(f, Len(root)) /\ Listable(f)) => InFileList(f)
    /\ (pc = "done" /\ Len(options.extensions) = 0) =>
        \A f \in ExtensionedFiles :
            (~BeneathExcluded(f, Len(root)) /\ Listable(f)) =>
                (InFileStats(f) <=> Readable(f))

\* a finished run with an empty allow-list that counted the file whose extension
\* is written in upper case, skipped an unreadable file and met a directory it
\* could not list
C6_Witness ==
    /\ pc = "done"
    /\ Len(options.extensions) = 0
    /\ \E k \in Indices(fileStats) : fileStats[k].ext = ExtHtml
    /\ \E f \in ExtensionedFiles : InFileList(f) /\ ~Readable(f)
    /\ unlistable # {}

ListedTotals == [k \in Indices(report.largestFiles) |-> report.largestFiles[k].lines]

\* the FileStat a largest-files entry was made from
StatOfListed(k) ==
    CHOOSE j \in Indices(fileStats) : fileStats[j].file = report.largestFiles[k].file

Omitted ==
    {j \in Indices(fileStats) :
        \A k \in Indices(report.largestFiles) :
            report.largestFiles[k].file # fileStats[j].file}

\* C7: the largest-files list has exactly min(top, number of analysed files)
\* entries, each an analysed file with its line count, in non-increasing order
\* of totalLines, and every omitted file has totalLines <= every listed one.
C7_LargestIsTopN ==
    pc = "done" =>
        /\ Len(report.largestFiles) = Min(options.top, Len(fileStats))
        /\ \A k \in Indices(report.largestFiles) :
            /\ InFileStats(report.largestFiles[k].file)
            /\ fileStats[StatOfListed(k)].totalLines = report.largestFiles[k].lines
        /\ \A j, k \in Indices(report.largestFiles) :
            /\ j < k => ListedTotals[j] >= ListedTotals[k]
            /\ j # k => report.largestFiles[j].file # report.largestFiles[k].file
        /\ \A j \in Omitted : \A k \in Indices(report.largestFiles) :
            fileStats[j].totalLines <= ListedTotals[k]
        /\ options.top = 0 => report.largestFiles = <<>>
        /\ options.top >= Len(fileStats) => Omitted = {}

\* a report that lists some files and omits others, made from FileStats that
\* were not in descending order
C7_Witness ==
    /\ pc = "done"
    /\ report.largestFiles # <<>>
    /\ Omitted # {}
    /\ \E j, k \in Indices(fileStats) :
        j < k /\ fileStats[j].totalLines < fileStats[k].totalLines

PositionInFileList(f) == CHOOSE k \in Indices(fileList) : fileList[k] = f

\* C8: two listed files with equal totalLines appear in the order in which
\* walkDir discovered them.
C8_TiesInDiscoveryOrder ==
    pc = "done" =>
        \A j, k \in Indices(report.largestFiles) :
            (j < k /\ ListedTotals[j] = ListedTotals[k]) =>
                PositionInFileList(report.largestFiles[j].file)
                    < PositionInFileList(report.largestFiles[k].file)

\* a report that lists two files of equal totalLines, with a skipped file
\* discovered between them
C8_Witness ==
    /\ pc = "done"
    /\ \E j, k \in Indices(report.largestFiles) :
        /\ j < k
        /\ ListedTotals[j] = ListedTotals[k]
        /\ \E m \in Indices(fileList) :
            /\ PositionInFileList(report.largestFiles[j].file) < m
            /\ m < PositionInFileList(report.largestFiles[k].file)
            /\ ~Readable(fileList[m])

\* C9: when the root is missing or not a directory the run ends in the fatal
\* state with no directory listed, no file read and no report; and once a
\* directory has been listed the run is never in the fatal state.
C9_PathErrorBeforeTraversal ==
    /\ rootKind # "dir" =>
        /\ pc \in {"stat", "exit2"}
        /\ listed = <<>> /\ reads = <<>>
        /\ fileList = <<>> /\ fileStats = <<>>
        /\ report = NoReport
    /\ pc = "exit2" => rootKind # "dir"
    /\ listed # <<>> => pc # "exit2"
    /\ pc # "done" => report = NoReport

\* the run has failed on a root that is a regular file
C9_Witness == pc = "exit2" /\ rootKind = "file"

\* the FileStats of the readable files among the first n of the file list
RECURSIVE ExpectedStats(_)
ExpectedStats(n) ==
    IF n = 0 THEN <<>>
    ELSE IF Readable(fileList[n])
         THEN Append(ExpectedStats(n - 1),
                     analyzeFile(fileList[n], content[fileList[n]], options))
         ELSE ExpectedStats(n - 1)

\* C10: a file whose read fails adds nothing to the FileStats, the per-extension
\* summaries, the totals or the largest-files list, the run does not fail, and
\* the other files are counted as if the failing file had not been discovered.
C10_UnreadableOmitted ==
    /\ pc \in {"analyze", "done"} =>
        /\ fileStats = ExpectedStats(next)
        /\ Sigma(perExt, "files") = Len(ExpectedStats(next))
        /\ Len(reads) = next
        /\ \A k \in Indices(fileStats) : Readable(fileStats[k].file)
    /\ pc = "done" =>
        /\ next = Len(fileList)
        /\ report.totalFiles = Cardinality({k \in Indices(fileList) : Readable(fileList[k])})
        /\ \A k \in Indices(report.largestFiles) : Readable(report.largestFiles[k].file)
    /\ (rootKind = "dir") => pc # "exit2"

\* a finished run in which an unreadable file was discovered before a readable one
C10_Witness ==
    /\ pc = "done"
    /\ report.largestFiles # <<>>
    /\ \E j, k \in Indices(fileList) :
        j < k /\ ~Readable(fileList[j]) /\ Readable(fileList[k])

\* the allow-list is empty or holds the file's lowercased extension
AllowedByList(f) ==
    \/ options.extensions = <<>>
    \/ ExtOf(BaseName(f)) \in {options.extensions[k] : k \in Indices(options.extensions)}

\* the files walkDir has to find: regular files with an allowed extension, in
\* directories that are not excluded and can be listed, none behind the symlink
ExpectedFiles ==
    {f \in ExtensionedFiles :
        AllowedByList(f) /\ Listable(f) /\ ~BeneathExcluded(f, Len(root))}

BehindSymlink(path) == \E k \in (Len(root) + 1)..Len(path) : path[k] = Link

\* C11: a directory that cannot be listed and a symlink are skipped: no file of
\* that subtree is gathered, readdir is not called on the symlink, the files of
\* the remaining siblings and of the other subtrees are all gathered, each once,
\* and the run does not fail.
C11_SubtreeSkippedWalkContinues ==
    /\ \A k \in Indices(fileList) : Listable(fileList[k]) /\ ~BehindSymlink(fileList[k])
    /\ \A k \in Indices(listed) : ~BehindSymlink(listed[k])
    /\ pc \in {"analyze", "done"} =>
        /\ {fileList[k] : k \in Indices(fileList)} = ExpectedFiles
        /\ \A j, k \in Indices(fileList) : fileList[j] = fileList[k] => j = k
    /\ rootKind = "dir" => pc # "exit2"

\* a finished run that could not list src/node_modules and still gathered the
\* file that follows it in src, after passing the symlink in the root
C11_Witness ==
    /\ pc = "done"
    /\ unlistable = {Join(Join(root, Src), NodeModules)}
    /\ InFileList(Join(Join(root, Src), DTs))
    /\ \E k \in Indices(listed) : listed[k] = Join(Join(root, Src), NodeModules)
    /\ \E k \in Indices(Tree(<<>>)) : Tree(<<>>)[k].kind = "symlink"

(***************************************************************************)
(* Claims about two runs.                                                  *)
(***************************************************************************)
\* C12: the second run on the unchanged tree with the same configuration ends
\* with the report of the first: the same totals, per-extension breakdown and
\* largest-files list, in the same order.
C12_SecondReportIdentical ==
    (pc = "done" /\ previous # <<>>) => report = previous[1]

\* a second run has ended, its report has several largest files and several
\* extensions, and a file was skipped
C12_Witness ==
    /\ pc = "done"
    /\ previous # <<>>
    /\ Len(report.largestFiles) >= 2
    /\ Len(report.perExtension) >= 2
    /\ Len(reads) > report.totalFiles

(***************************************************************************)
(* Claims about one line (SpecClassify).                                   *)
(***************************************************************************)
AllSpace(s) == \A k \in DOMAIN s : IsSpace(s[k])

\* the line of SpecClassify, trimmed, and the loop state before and after it
TheLine == Trimmed(lines[1])
Before  == hist[1]

Terminator == IF Before.blockType = "c" THEN CClose ELSE HtmlClose

\* what follows the first occurrence of tok in s
AfterFirst(s, tok) == SubSeq(s, IndexOf(s, tok) + Len(tok) + 1, Len(s))

Contains(s, tok) == \E k \in 0..Len(s) : MatchAt(s, tok, k)

NonBlankInsideBlock ==
    /\ idx = 1
    /\ Before.withinBlock
    /\ ~AllSpace(lines[1])

\* C13: inside a block comment, a non-blank line without the terminator is
\* comment-only and the block stays open; with the terminator followed only by
\* white space it is comment-only and the block closes; with the terminator
\* followed by other text it is not comment-only and the block closes, whatever
\* that text holds: an opener in it does not re-open the block.
C13_InsideBlockRule ==
    NonBlankInsideBlock =>
        /\ st.nonEmpty = Before.nonEmpty + 1
        /\ IF ~Contains(TheLine, Terminator)
           THEN /\ CountedComment(1)
                /\ st.withinBlock /\ st.blockType = Before.blockType
           ELSE IF AllSpace(AfterFirst(TheLine, Terminator))
           THEN /\ CountedComment(1)
                /\ ~st.withinBlock /\ st.blockType = NoBlock
           ELSE /\ st.commentOnly = Before.commentOnly
                /\ ~st.withinBlock /\ st.blockType = NoBlock

\* a line inside a c block whose terminator is followed by a new, unterminated
\* opener has been processed
C13_Witness ==
    /\ NonBlankInsideBlock
    /\ Before.blockType = "c"
    /\ Contains(TheLine, CClose)
    /\ StartsWith(TrimStart(AfterFirst(TheLine, CClose)), COpen)
    /\ ~Contains(SubSeq(TrimStart(AfterFirst(TheLine, CClose)), 3,
                        Len(TrimStart(AfterFirst(TheLine, CClose)))), CClose)

Prefix(s, n) == SubSeq(s, 1, Min(n, Len(s)))

\* the line with its first two characters removed
PastOpener == SubSeq(TheLine, 3, Len(TheLine))

NonBlankOutsideBlockCStyle ==
    /\ idx = 1
    /\ CStyleDetecting
    /\ ~Before.withinBlock
    /\ ~AllSpace(lines[1])

\* C14: for a c-style file and a non-blank line outside a block comment, the
\* line is comment-only iff it starts with the line-comment token, or starts
\* with the block opener and either has no terminator after the opener or has
\* only white space after that terminator; the block opens iff the line starts
\* with the block opener and has no terminator after it.
C14_OutsideBlockCStyleRule ==
    NonBlankOutsideBlockCStyle =>
        /\ CountedComment(1) <=>
              \/ Prefix(TheLine, 2) = LineComment
              \/ /\ Prefix(TheLine, 2) = COpen
                 /\ \/ ~Contains(PastOpener, CClose)
                    \/ AllSpace(AfterFirst(PastOpener, CClose))
        /\ st.withinBlock <=>
              /\ Prefix(TheLine, 2) = COpen
              /\ ~Contains(PastOpener, CClose)
        /\ st.withinBlock => st.blockType = "c"

\* a line that starts with the opener and whose only closing token overlaps
\* the opener has opened the block
C14_Witness ==
    /\ NonBlankOutsideBlockCStyle
    /\ Prefix(TheLine, 2) = COpen
    /\ Contains(TheLine, CClose)
    /\ ~Contains(PastOpener, CClose)
    /\ st.withinBlock
    /\ CountedComment(1)

(***************************************************************************)
(* Claims about blank lines and disabled detection (SpecLines).            *)
(***************************************************************************)
\* C15: a line of spaces and tabs only (or of nothing) is one of the total
\* lines and leaves nonEmpty, commentOnly, withinBlock and blockType as they
\* were, inside a block or not; a finished file of such lines only has
\* nonEmpty = 0 and commentOnly = 0.
C15_BlankLineOnlyTotal ==
    /\ total = Len(lines)
    /\ \A i \in 1..idx : AllSpace(lines[i]) => hist[i + 1] = hist[i]
    /\ (idx = Len(lines) /\ \A i \in 1..idx : AllSpace(lines[i])) =>
           (st.nonEmpty = 0 /\ st.commentOnly = 0)

\* a line of white space has been processed while a block comment was open
C15_Witness ==
    \E i \in 1..idx :
        /\ lines[i] # <<>>
        /\ AllSpace(lines[i])
        /\ hist[i].withinBlock
        /\ hist[i + 1].withinBlock

NoDetection == ~detectComments \/ (~isCStyle(ext) /\ ~isHtmlLike(ext))

\* C16: with detection disabled, or an extension of neither family, commentOnly
\* is 0 after every line, whatever the lines hold; in every configuration total
\* is the number of lines and nonEmpty the number of processed lines that are
\* not blank, so neither depends on detection or on the family.
C16_NoDetectionNoComments ==
    /\ NoDetection => st.commentOnly = 0
    /\ total = Len(lines)
    /\ st.nonEmpty = Cardinality({i \in 1..idx : ~AllSpace(lines[i])})

\* a c-style file with a line-comment line has been analysed with detection
\* disabled
C16_Witness ==
    /\ idx = Len(lines)
    /\ ~detectComments
    /\ isCStyle(ext)
    /\ \E i \in 1..idx : Prefix(lines[i], 2) = LineComment
    /\ st.nonEmpty > 0

(***************************************************************************)
(* Claims about the analysis of each file of a run (Spec).                 *)
(***************************************************************************)
\* the loop state at the end of the file of FileStat k, started outside a block
EndOfFile(k) ==
    FoldLines(InitState, SplitLines(content[fileStats[k].file]), fileStats[k].ext,
              options.detectComments)

\* C17: every FileStat holds the counts of its own lines analysed from the state
\* 'not inside a block', with its extension and detectComments; a file analysed
\* before it, ending inside a block or not, changes none of them.
C17_EachFileStartsOutsideBlock ==
    pc \in {"analyze", "done"} =>
        \A k \in Indices(fileStats) :
            /\ fileStats[k].totalLines = Len(SplitLines(content[fileStats[k].file]))
            /\ fileStats[k].nonEmptyLines = EndOfFile(k).nonEmpty
            /\ fileStats[k].commentOnlyLines = EndOfFile(k).commentOnly

\* a finished run in which a file that ends inside a block comment was analysed
\* just before a file with a line that is not a comment
C17_Witness ==
    /\ pc = "done"
    /\ \E k \in Indices(fileStats) :
        /\ k < Len(fileStats)
        /\ EndOfFile(k).withinBlock
        /\ fileStats[k + 1].commentOnlyLines < fileStats[k + 1].nonEmptyLines

(***************************************************************************)
(* Claims about the completion of a run (SpecFair).                        *)
(***************************************************************************)
Occurrences(q, x) == Cardinality({k \in Indices(q) : q[k] = x})

StatsOf(f) == Cardinality({k \in Indices(fileStats) : fileStats[k].file = f})

\* every file of the file list was read once; a readable one has one FileStat,
\* an unreadable one has none
AnalysedOnce ==
    \A k \in Indices(fileList) :
        /\ Occurrences(reads, fileList[k]) = 1
        /\ StatsOf(fileList[k]) = (IF content[fileList[k]] = Unreadable THEN 0 ELSE 1)

\* C18: a run on a root that is a directory, whatever directories cannot be
\* listed and files cannot be read, eventually has its report, and by then it
\* has analysed every file of the file list exactly once.
C18_RunCompletes == (rootKind = "dir") ~> (pc = "done" /\ AnalysedOnce)

\* a finished run with an unlistable directory, an unreadable file and a
\* readable file in the file list
C18_Witness ==
    /\ pc = "done"
    /\ rootKind = "dir"
    /\ unlistable # {}
    /\ \E j, k \in Indices(fileList) :
        content[fileList[j]] = Unreadable /\ content[fileList[k]] # Unreadable

(***************************************************************************)
(* Claims about the split of a text into lines (SpecSplit).                *)
(***************************************************************************)
\* the positions of fileText where a line terminator ends: a \r\n pair is one
\* terminator, ending at its \n; a \r not followed by \n, or a \n not preceded
\* by \r, is one terminator
TerminatorEnds ==
    {k \in DOMAIN fileText :
        \/ fileText[k] = LF
        \/ fileText[k] = CR /\ ~(k < Len(fileText) /\ fileText[k + 1] = LF)}

\* C19: once the text is split, totalLines is the number of line terminators of
\* the text, a \r\n pair being one, plus one, and no line holds a line-ending
\* character.
C19_OneLinePerTerminator ==
    hist # <<>> =>
        /\ total = Cardinality(TerminatorEnds) + 1
        /\ \A i \in DOMAIN lines : \A k \in DOMAIN lines[i] : lines[i][k] \notin {CR, LF}

\* a text with a \r\n pair and a lone \r or \n has been split and analysed
C19_Witness ==
    /\ hist # <<>>
    /\ idx = Len(lines)
    /\ \E k \in DOMAIN fileText :
        k < Len(fileText) /\ fileText[k] = CR /\ fileText[k + 1] = LF
    /\ Cardinality(TerminatorEnds) >= 2

(***************************************************************************)
(* Claims about parseArgs (SpecArgs).                                      *)
(***************************************************************************)
ValueFlags == {FlagExt, FlagExtensions, FlagExclude, FlagFormat, FlagTop}

\* the positions of the arguments that are not flags: not empty, not starting
\* with a dash, and not the value that follows a flag taking one
NonFlagPositions ==
    {k \in DOMAIN args :
        /\ args[k] # <<>>
        /\ args[k][1] # "-"
        /\ ~(k > 1 /\ args[k - 1] \in ValueFlags)}

FirstNonFlag == CHOOSE k \in NonFlagPositions : \A j \in NonFlagPositions : k <= j

\* C20: when parseArgs returns, the target path is the current working
\* directory if no argument is a non-flag argument, and otherwise the resolved
\* first non-flag argument: no later argument, and no value following --top,
\* --format, --ext or --exclude, has changed it.
C20_TargetIsFirstPositional ==
    pc = "parsed" =>
        root = IF NonFlagPositions = {} THEN Cwd ELSE Resolve(args[FirstNonFlag])

====
